---- MODULE Spec2Model ----
(***************************************************************************)
(* Model of src/project/src/pages/Marketplace.tsx: the Marketplace page    *)
(* (listing load, save toggle, filter and sort) over an external store.    *)
(* Spec is the page with the asynchronous save toggle handleSaveRoom       *)
(* (lines 15-320); LoadSpec is its load alone, under fairness; FilterSpec   *)
(* is the page with the filter modal and the sort selector (lines          *)
(* 335-721), ToggleSpec the same page with its save buttons.               *)
(***************************************************************************)
EXTENDS Integers, Sequences, FiniteSets, Bags, TLC

VARIABLES
    saved,          \* store: bag of saved_properties rows
    user,           \* auth provider: the current user, or NoUser
    rooms,          \* useState rooms
    isLoading,      \* useState isLoading
    error,          \* useState error
    cities,         \* useState cities
    savingRoom,     \* useState savingRoom
    route,          \* router location (navigate)
    fpc,            \* fetchRooms: the await it is suspended at
    properties,     \* fetchRooms: local properties
    allRooms,       \* fetchRooms: local allRooms
    idx,            \* fetchRooms: position of the for-of loop
    failedQuery,    \* fetchRooms: the query that returned an error (history)
    calls,          \* handleSaveRoom: one record per invocation, in click order
    searchQuery,    \* useState searchQuery
    selectedCity,   \* useState selectedCity
    filters,        \* useState filters
    sortBy,         \* useState sortBy
    filteredRooms   \* render: const filteredRooms

vars == <<saved, user, rooms, isLoading, error, cities, savingRoom, route,
          fpc, properties, allRooms, idx, failedQuery, calls,
          searchQuery, selectedCity, filters, sortBy, filteredRooms>>

storeVars == <<saved, user>>
fetchVars == <<fpc, properties, allRooms, idx, failedQuery>>
filterVars == <<searchQuery, selectedCity, filters, sortBy, filteredRooms>>

-----------------------------------------------------------------------------
(* Bounds *)

\* handleSaveRoom invocations (clicks on a Save button) in one behaviour
MaxClicks == 3

\* handleSaveRoom invocations in flight at once
MaxInFlight == 2

\* listings held by the page with the filter modal
MaxListings == 3

-----------------------------------------------------------------------------
(* Program constants *)

\* priceRange: [0, 10000000]; max="10000000" of the price slider
PriceRangeMax == 10000000
\* step="100000" of the price slider
PriceStep == 100000

-----------------------------------------------------------------------------
(* Values *)

null == "null"
NoUser == "none"
U1 == "u1"
U2 == "u2"

\* text is a sequence of one-character strings, so that toLowerCase and
\* includes are computed and not assumed
Jakarta == <<"J", "a">>
Bandung == <<"B", "a", "n">>
Solo == <<"S", "o">>
Medan == <<"M", "e">>
\* the 'all' of selectedCity and filters.type, which are compared with text
all == <<"a", "l", "l">>

\* a created_at the Date constructor parses, as the instant it denotes
Timestamp(ms) == [parsable |-> TRUE, ms |-> ms]
\* a created_at that is missing (null, '') or that Date cannot parse
NoTimestamp == [parsable |-> FALSE, ms |-> 0]

\* a JavaScript number: an integer, or NaN
Num(v) == [nan |-> FALSE, v |-> v]
NaN == [nan |-> TRUE, v |-> 0]

\* store table properties, in the order the store returns its rows
PropertiesTable ==
    << [id |-> "p1", name |-> <<"K", "o", "s">>, address |-> <<"J", "l">>,
        city |-> Jakarta, marketplace_enabled |-> TRUE,
        marketplace_status |-> "published"],
       [id |-> "p2", name |-> <<"R", "u">>, address |-> <<"G", "g">>,
        city |-> Bandung, marketplace_enabled |-> TRUE,
        marketplace_status |-> "published"],
       [id |-> "p3", name |-> <<"W", "i">>, address |-> <<"J", "l">>,
        city |-> Solo, marketplace_enabled |-> TRUE,
        marketplace_status |-> "published"],
       [id |-> "p4", name |-> <<"D", "r">>, address |-> <<"J", "l">>,
        city |-> Medan, marketplace_enabled |-> TRUE,
        marketplace_status |-> "draft"],
       [id |-> "p5", name |-> <<"O", "m">>, address |-> <<"G", "g">>,
        city |-> Jakarta, marketplace_enabled |-> TRUE,
        marketplace_status |-> "published"] >>

\* store table room_types
RoomTypesTable ==
    << [id |-> "r1", property_id |-> "p1", name |-> <<"S", "t", "d">>,
        price |-> 500000, max_occupancy |-> 2, renter_gender |-> "male",
        created_at |-> Timestamp(1)],
       [id |-> "r2", property_id |-> "p1", name |-> <<"V", "i", "p">>,
        price |-> 300000, max_occupancy |-> 1, renter_gender |-> "female",
        created_at |-> Timestamp(2)],
       [id |-> "r3", property_id |-> "p2", name |-> <<"S", "t", "d">>,
        price |-> 300000, max_occupancy |-> 1, renter_gender |-> "mixed",
        created_at |-> Timestamp(3)],
       [id |-> "r4", property_id |-> "p4", name |-> <<"S", "t", "d">>,
        price |-> 300000, max_occupancy |-> 1, renter_gender |-> "mixed",
        created_at |-> Timestamp(4)] >>

PropertyIds == {PropertiesTable[i].id : i \in 1..Len(PropertiesTable)}
RoomIds == {RoomTypesTable[i].id : i \in 1..Len(RoomTypesTable)}

SavedRow(p, u) == [property_id |-> p, user_id |-> u]

-----------------------------------------------------------------------------
(* The store (supabase) *)

\* .from('properties').select('*').eq('marketplace_enabled', true)
\*                               .eq('marketplace_status', 'published')
QueryPublishedProperties ==
    SelectSeq(PropertiesTable,
              LAMBDA p : p.marketplace_enabled = TRUE
                         /\ p.marketplace_status = "published")

\* .from('room_types').select('*').eq('property_id', pid)
QueryRoomTypes(pid) ==
    SelectSeq(RoomTypesTable, LAMBDA r : r.property_id = pid)

\* .from('saved_properties').select('property_id').eq('user_id', uid):
\* one property_id per row
QuerySavedProperties(uid) ==
    [row \in {x \in BagToSet(saved) : x.user_id = uid} |-> saved[row]]

\* .from('saved_properties').insert([{ property_id, user_id }])
StoreInsert(pid, uid) == saved (+) SetToBag({SavedRow(pid, uid)})

\* .from('saved_properties').delete().eq('property_id', pid).eq('user_id', uid)
StoreDelete(pid, uid) ==
    [row \in {x \in BagToSet(saved) :
                ~(x.property_id = pid /\ x.user_id = uid)} |-> saved[row]]

\* number of SavedMark rows for (uid, pid)
SavedCount(uid, pid) == CopiesIn(SavedRow(pid, uid), saved)

-----------------------------------------------------------------------------
(* fetchRooms *)

\* [...new Set(xs)]: the distinct elements, in order of first occurrence
\* mutant of UniqueSeq: every value is kept
UniqueSeq_KeepsRepeats(xs) == xs

RECURSIVE UniqueSeq(_)
UniqueSeq(xs) ==
    IF xs = << >> THEN << >>
    ELSE LET front == UniqueSeq(SubSeq(xs, 1, Len(xs) - 1))
             last == xs[Len(xs)]
         IN IF \E i \in 1..Len(front) : front[i] = last
            THEN front
            ELSE Append(front, last)

\* { ...room, property, isSaved: false }
RoomWithProperty(room, property) ==
    [id |-> room.id, property_id |-> room.property_id, name |-> room.name,
     price |-> room.price, max_occupancy |-> room.max_occupancy,
     renter_gender |-> room.renter_gender, created_at |-> room.created_at,
     property |-> property, isSaved |-> FALSE]

\* (roomTypes || []).map(room => ({ ...room, property, isSaved: false }))
RoomsWithProperty(roomTypes, property) ==
    [i \in 1..Len(roomTypes) |-> RoomWithProperty(roomTypes[i], property)]

\* mutant of MarkSaved: the saved set is looked up by room id
MarkSaved_ByRoomId(listings, savedProperties) ==
    LET savedPropertyIds == {sp.property_id : sp \in BagToSet(savedProperties)}
    IN [i \in 1..Len(listings) |->
          [listings[i] EXCEPT !.isSaved = listings[i].id \in savedPropertyIds]]

\* savedPropertyIds = new Set(savedProperties.map(sp => sp.property_id));
\* allRooms.forEach(room => room.isSaved = savedPropertyIds.has(room.property.id))
MarkSaved(listings, savedProperties) ==
    LET savedPropertyIds == {sp.property_id : sp \in BagToSet(savedProperties)}
    IN [i \in 1..Len(listings) |->
          [listings[i] EXCEPT !.isSaved = listings[i].property.id \in savedPropertyIds]]

\* mutant of FetchFailed: the rooms joined so far are shown with the error
FetchFailed_Partial ==
    /\ error' = "Failed to load rooms"
    /\ isLoading' = FALSE
    /\ fpc' = "done"
    /\ rooms' = allRooms

\* mutant of FetchFailed: no finally, the loading flag stays set
FetchFailed_StaysLoading ==
    /\ error' = "Failed to load rooms"
    /\ isLoading' = isLoading
    /\ fpc' = "done"
    /\ UNCHANGED rooms

\* catch { setError('Failed to load rooms') } finally { setIsLoading(false) }
FetchFailed ==
    /\ error' = "Failed to load rooms"
    /\ isLoading' = FALSE
    /\ fpc' = "done"
    /\ UNCHANGED rooms

\* setRooms(allRooms); finally { setIsLoading(false) }
FetchDone(listings) ==
    /\ rooms' = listings
    /\ isLoading' = FALSE
    /\ fpc' = "done"

\* useEffect(() => { fetchRooms() }, []): up to the first await
FetchStart ==
    /\ fpc = "mount"
    /\ isLoading' = TRUE
    /\ fpc' = "properties"
    /\ UNCHANGED <<storeVars, rooms, error, cities, savingRoom, route,
                   properties, allRooms, idx, failedQuery, calls, filterVars>>

\* the properties query resolves: with an error, or with its rows
FetchProperties ==
    /\ fpc = "properties"
    /\ \E propertiesError \in BOOLEAN :
         IF propertiesError
         THEN /\ failedQuery' = "properties"
              /\ FetchFailed
              /\ UNCHANGED <<cities, properties, allRooms, idx>>
         ELSE /\ properties' = QueryPublishedProperties
              /\ cities' = UniqueSeq([i \in 1..Len(properties') |-> properties'[i].city])
              /\ allRooms' = << >>
              /\ idx' = 1
              /\ fpc' = IF Len(properties') = 0 THEN "getUser" ELSE "room_types"
              /\ UNCHANGED <<rooms, error, isLoading, failedQuery>>
    /\ UNCHANGED <<storeVars, savingRoom, route, calls, filterVars>>

\* the room_types query of properties[idx] resolves
FetchRoomTypes ==
    /\ fpc = "room_types"
    /\ \E roomTypesError \in BOOLEAN :
         IF roomTypesError
         THEN /\ failedQuery' = "room_types"
              /\ FetchFailed
              /\ UNCHANGED <<allRooms, idx>>
         ELSE /\ allRooms' = allRooms \o RoomsWithProperty(
                                 QueryRoomTypes(properties[idx].id), properties[idx])
              /\ idx' = idx + 1
              /\ fpc' = IF idx = Len(properties) THEN "getUser" ELSE "room_types"
              /\ UNCHANGED <<rooms, error, isLoading, failedQuery>>
    /\ UNCHANGED <<storeVars, cities, properties, savingRoom, route, calls,
                   filterVars>>

\* supabase.auth.getUser() resolves
FetchGetUser ==
    /\ fpc = "getUser"
    /\ IF user # NoUser
       THEN /\ fpc' = "saved_properties"
            /\ UNCHANGED <<rooms, isLoading>>
       ELSE FetchDone(allRooms)
    /\ UNCHANGED <<storeVars, error, cities, properties, allRooms, idx,
                   failedQuery, savingRoom, route, calls, filterVars>>

\* mutant of FetchSavedProperties: an error of the query is thrown
FetchSavedProperties_Throws ==
    /\ fpc = "saved_properties"
    /\ \E savedError \in BOOLEAN :
         IF savedError
         THEN /\ failedQuery' = "saved_properties"
              /\ FetchFailed
              /\ UNCHANGED allRooms
         ELSE /\ failedQuery' = failedQuery
              /\ allRooms' = MarkSaved(allRooms, QuerySavedProperties(user))
              /\ FetchDone(allRooms')
              /\ UNCHANGED error
    /\ UNCHANGED <<storeVars, cities, properties, idx,
                   savingRoom, route, calls, filterVars>>

\* the saved_properties query resolves: data is the rows, or null on an error
\* (the error of this query is not read)
FetchSavedProperties ==
    /\ fpc = "saved_properties"
    /\ \E savedError \in BOOLEAN :
         /\ failedQuery' = IF savedError THEN "saved_properties" ELSE failedQuery
         /\ allRooms' = IF savedError THEN allRooms
                        ELSE MarkSaved(allRooms, QuerySavedProperties(user))
         /\ FetchDone(allRooms')
    /\ UNCHANGED <<storeVars, error, cities, properties, idx,
                   savingRoom, route, calls, filterVars>>

-----------------------------------------------------------------------------
(* Text *)

UpperCase == <<"A", "B", "C", "D", "E", "F", "G", "H", "I", "J", "K", "L", "M",
               "N", "O", "P", "Q", "R", "S", "T", "U", "V", "W", "X", "Y", "Z">>
LowerCase == <<"a", "b", "c", "d", "e", "f", "g", "h", "i", "j", "k", "l", "m",
               "n", "o", "p", "q", "r", "s", "t", "u", "v", "w", "x", "y", "z">>

\* the lower-case letter of each upper-case letter
LowerOf ==
    [c \in {UpperCase[k] : k \in 1..Len(UpperCase)} |->
       LowerCase[CHOOSE k \in 1..Len(UpperCase) : UpperCase[k] = c]]

\* String.prototype.toLowerCase
toLowerCase(str) ==
    [i \in 1..Len(str) |->
       IF str[i] \in DOMAIN LowerOf THEN LowerOf[str[i]] ELSE str[i]]

\* String.prototype.includes
includes(str, search) ==
    \E i \in 0..(Len(str) - Len(search)) :
       SubSeq(str, i + 1, i + Len(search)) = search

-----------------------------------------------------------------------------
(* The page with handleSaveRoom: its filteredRooms (search and city only) *)

\* mutant of matchesSearch: the query is not lower-cased
matchesSearch_QueryAsTyped(room, query) ==
    \/ includes(toLowerCase(room.name), query)
    \/ includes(toLowerCase(room.property.name), query)
    \/ includes(toLowerCase(room.property.city), query)
    \/ includes(toLowerCase(room.property.address), query)

\* matchesSearch of filteredRooms
matchesSearch(room, query) ==
    \/ includes(toLowerCase(room.name), toLowerCase(query))
    \/ includes(toLowerCase(room.property.name), toLowerCase(query))
    \/ includes(toLowerCase(room.property.city), toLowerCase(query))
    \/ includes(toLowerCase(room.property.address), toLowerCase(query))

\* matchesCity of filteredRooms
matchesCity(room, city) == city = all \/ room.property.city = city

\* the cards rendered by the page with handleSaveRoom: nothing while loading,
\* the error text in place of the cards, nothing once navigated away
renderedRooms ==
    IF isLoading \/ error # null \/ route # "/marketplace"
    THEN << >>
    ELSE SelectSeq(rooms, LAMBDA room : /\ matchesSearch(room, searchQuery)
                                        /\ matchesCity(room, selectedCity))

-----------------------------------------------------------------------------
(* handleSaveRoom *)

\* rooms.find(r => r.id === roomId): its position, 0 when there is none
FindRoom(listings, roomId) ==
    IF \E i \in 1..Len(listings) : listings[i].id = roomId
    THEN CHOOSE i \in 1..Len(listings) :
           /\ listings[i].id = roomId
           /\ \A j \in 1..(i - 1) : listings[j].id # roomId
    ELSE 0

\* rooms.map(r => r.id === roomId ? { ...r, isSaved: !r.isSaved } : r)
FlipSaved(listings, roomId) ==
    [i \in 1..Len(listings) |->
       IF listings[i].id = roomId
       THEN [listings[i] EXCEPT !.isSaved = ~listings[i].isSaved]
       ELSE listings[i]]

\* mutant of SignedIn: the check of the current user is missing
SignedIn_Always(u) == TRUE

\* if (!user) { navigate('/marketplace/auth'); return; }
SignedIn(u) == u # NoUser

\* mutant of SaveOp: the branch on room.isSaved is missing
SaveOp_AlwaysInsert(isSaved) == "insert"

\* if (room.isSaved) delete ... else insert ...
SaveOp(isSaved) == IF isSaved THEN "delete" ELSE "insert"

\* what an awaited store call can do: resolve without an error, resolve with
\* { error } (as the queries of fetchRooms read it), or reject
StoreOutcomes == {"ok", "error", "throw"}

\* the Save button of a card: disabled={savingRoom === room.id}
SaveButtonEnabled(roomId) ==
    /\ \E i \in 1..Len(renderedRooms) : renderedRooms[i].id = roomId
    /\ savingRoom # roomId

\* the invocations of handleSaveRoom that have not returned
InFlight == {c \in 1..Len(calls) : calls[c].pc # "done"}

\* onClick of the Save button of the card of listing i: handleSaveRoom up to
\* its first await. The closure holds the rooms of the render it was made in;
\* over (history) is the set of invocations in flight at the click.
SaveClick(i) ==
    /\ Len(calls) < MaxClicks
    /\ Cardinality(InFlight) < MaxInFlight
    /\ i \in 1..Len(renderedRooms)
    /\ SaveButtonEnabled(renderedRooms[i].id)
    /\ savingRoom' = renderedRooms[i].id
    /\ calls' = Append(calls,
                  [roomId |-> renderedRooms[i].id,
                   propertyId |-> renderedRooms[i].property.id,
                   rooms |-> rooms, pc |-> "getUser", user |-> NoUser,
                   op |-> "none", res |-> "pending",
                   over |-> InFlight])
    /\ UNCHANGED <<storeVars, rooms, isLoading, error, cities, route,
                   fetchVars, filterVars>>

\* finally { setSavingRoom(null) } of invocation c, which ends with res
SaveFinally(c, res) ==
    /\ savingRoom' = null
    /\ calls' = [calls EXCEPT ![c].pc = "done", ![c].res = res]

\* supabase.auth.getUser() of invocation c resolves
SaveGetUser(c) ==
    /\ c \in 1..Len(calls)
    /\ calls[c].pc = "getUser"
    /\ IF ~SignedIn(user)
       THEN /\ route' = "/marketplace/auth"
            /\ SaveFinally(c, "auth")
       ELSE IF FindRoom(calls[c].rooms, calls[c].roomId) = 0
       THEN /\ SaveFinally(c, "noroom")
            /\ UNCHANGED route
       ELSE /\ calls' = [calls EXCEPT
                  ![c].pc = "store",
                  ![c].user = user,
                  ![c].op = SaveOp(calls[c].rooms[FindRoom(calls[c].rooms,
                                                  calls[c].roomId)].isSaved)]
            /\ UNCHANGED <<savingRoom, route>>
    /\ UNCHANGED <<storeVars, rooms, isLoading, error, cities,
                   fetchVars, filterVars>>

\* the store call of invocation c resolves; then setRooms(rooms.map(...))
SaveStore(c) ==
    /\ c \in 1..Len(calls)
    /\ calls[c].pc = "store"
    /\ \E outcome \in StoreOutcomes :
         /\ saved' = IF outcome # "ok" THEN saved
                     ELSE IF calls[c].op = "delete"
                     THEN StoreDelete(calls[c].propertyId, calls[c].user)
                     ELSE StoreInsert(calls[c].propertyId, calls[c].user)
         /\ rooms' = IF outcome = "throw" THEN rooms
                     ELSE FlipSaved(calls[c].rooms, calls[c].roomId)
         /\ SaveFinally(c, outcome)
    /\ UNCHANGED <<user, isLoading, error, cities, route, fetchVars, filterVars>>

-----------------------------------------------------------------------------
(* Specification of the page with handleSaveRoom *)

\* useState({ priceRange: [0, 10000000], occupancy: 'all', ... })
DefaultFilters ==
    [priceRange |-> <<0, PriceRangeMax>>, occupancy |-> "all", gender |-> "all",
     type |-> all]

\* the saved_properties rows at mount: user u2 has saved p2, user u1 has
\* saved p1 or nothing
InitSaved ==
    {SetToBag({SavedRow(p, U1) : p \in S} \cup {SavedRow("p2", U2)}) :
       S \in SUBSET {"p1"}}

Init ==
    /\ saved \in InitSaved
    /\ user \in {NoUser, U1}
    /\ rooms = << >>
    /\ isLoading = TRUE
    /\ error = null
    /\ cities = << >>
    /\ savingRoom = null
    /\ route = "/marketplace"
    /\ fpc = "mount"
    /\ properties = << >>
    /\ allRooms = << >>
    /\ idx = 1
    /\ failedQuery = "none"
    /\ calls = << >>
    /\ searchQuery = << >>
    /\ selectedCity = all
    /\ filters = DefaultFilters
    /\ sortBy = "newest"
    /\ filteredRooms = << >>

Next ==
    \/ FetchStart
    \/ FetchProperties
    \/ FetchRoomTypes
    \/ FetchGetUser
    \/ FetchSavedProperties
    \/ \E i \in 1..Len(rooms) : SaveClick(i)
    \/ \E c \in 1..MaxClicks : SaveGetUser(c)
    \/ \E c \in 1..MaxClicks : SaveStore(c)

Spec == Init /\ [][Next]_vars

-----------------------------------------------------------------------------
(* Properties of the page with handleSaveRoom *)

Done(c) == calls[c].pc = "done"

\* the isSaved of the listing roomId in a collection that holds it
IsSavedIn(listings, roomId) == listings[FindRoom(listings, roomId)].isSaved

\* the join that a load without a failed query builds, isSaved false
JoinedRooms ==
    LET ps == QueryPublishedProperties
        RECURSIVE Upto(_)
        Upto(n) == IF n = 0 THEN << >>
                   ELSE Upto(n - 1) \o RoomsWithProperty(QueryRoomTypes(ps[n].id), ps[n])
    IN Upto(Len(ps))

\* C1: two toggles on the same room, the second issued while the first is in
\* flight, never both apply: they do not both reach the store with the same
\* operation and both flip the listing.
C1_SameRoomNotAppliedTwice ==
    \A a \in 1..Len(calls) : \A b \in 1..Len(calls) :
       (/\ a < b
        /\ calls[a].roomId = calls[b].roomId
        /\ a \in calls[b].over)
       => ~(/\ calls[a].res = "ok"
            /\ calls[b].res = "ok"
            /\ calls[a].op = calls[b].op)

\* C2: two toggles on different rooms that overlap and both succeed leave
\* both listings flipped relative to the collection before either started.
C2_DifferentRoomsBothFlipped ==
    (/\ Len(calls) = 2
     /\ Done(1) /\ Done(2)
     /\ calls[1].roomId # calls[2].roomId
     /\ 1 \in calls[2].over
     /\ calls[1].res = "ok" /\ calls[2].res = "ok")
    => rooms = FlipSaved(FlipSaved(calls[1].rooms, calls[1].roomId),
                         calls[2].roomId)

\* C3: the store never holds two SavedMarks for one (userId, propertyId).
C3_UniqueSavedMark ==
    \A u \in {U1, U2} : \A p \in PropertyIds : SavedCount(u, p) <= 1

\* C4: a store call of a toggle that fails (resolves with an error, or
\* rejects) leaves the held collection as it was.
C4_FailedStoreCallKeepsRooms ==
    [][\A c \in 1..Len(calls) :
         (/\ calls[c].pc = "store"
          /\ calls'[c].res \in {"error", "throw"})
         => rooms' = rooms]_vars

\* C5: a toggle with no current user ends at the authentication check: it
\* navigates to the sign-in route and changes neither the store nor any isSaved.
C5_NoUserNoMutation ==
    [][\A c \in 1..Len(calls) :
         (/\ user = NoUser
          /\ calls[c].pc # "done"
          /\ calls'[c] # calls[c])
         => /\ calls'[c].res = "auth"
            /\ calls'[c].pc = "done"
            /\ route' = "/marketplace/auth"
            /\ saved' = saved
            /\ rooms' = rooms]_vars

C5_Witness ==
    \E c \in 1..Len(calls) : calls[c].res = "auth" /\ route = "/marketplace/auth"

\* C6: a successful toggle of an unsaved listing followed at once by a second
\* successful toggle of the same listing, nothing else in flight meanwhile,
\* leaves the listing unsaved and no SavedMark for (user, its property).
RoundTrip(a, b) ==
    /\ b = a + 1
    /\ b = Len(calls)
    /\ Done(a) /\ Done(b)
    /\ calls[a].roomId = calls[b].roomId
    /\ calls[a].over = {} /\ calls[b].over = {}
    /\ ~IsSavedIn(calls[a].rooms, calls[a].roomId)
    /\ calls[a].res = "ok" /\ calls[b].res = "ok"

C6_ToggleRoundTrip ==
    \A a \in 1..Len(calls) : \A b \in 1..Len(calls) :
       RoundTrip(a, b)
       => /\ ~IsSavedIn(rooms, calls[b].roomId)
          /\ SavedCount(calls[b].user, calls[b].propertyId) = 0

C6_Witness ==
    \E a \in 1..Len(calls) : \E b \in 1..Len(calls) :
       /\ RoundTrip(a, b)
       /\ a > 1
       /\ calls[1].propertyId = calls[a].propertyId

\* C7: a load whose properties query or a room_types query failed ends with
\* the error set and the held collection empty, whatever was joined before.
C7_FailedLoadShowsNothing ==
    failedQuery \in {"properties", "room_types"}
    => /\ fpc = "done"
       /\ error = "Failed to load rooms"
       /\ rooms = << >>
       /\ ~isLoading

C7_Witness ==
    /\ failedQuery = "room_types"
    /\ Len(allRooms) > 0
    /\ fpc = "done"

\* C8: after a load without a failed query and before any toggle, a listing
\* is marked saved exactly when there is a current user whose saved set
\* holds the listing's property.
C8_LoadedSavedState ==
    (fpc = "done" /\ failedQuery = "none" /\ calls = << >>)
    => /\ Len(rooms) = Len(JoinedRooms)
       /\ \A i \in 1..Len(rooms) :
            rooms[i].isSaved <=> (/\ user # NoUser
                                  /\ SavedCount(user, rooms[i].property.id) > 0)

C8_Witness ==
    /\ fpc = "done" /\ failedQuery = "none" /\ calls = << >>
    /\ \E i \in 1..Len(rooms) : \E j \in 1..Len(rooms) : \E k \in 1..Len(rooms) :
         /\ i # j
         /\ rooms[i].property.id = rooms[j].property.id
         /\ rooms[i].isSaved /\ rooms[j].isSaved
         /\ ~rooms[k].isSaved
         /\ SavedCount(U2, rooms[k].property.id) > 0

\* C9: a load whose saved_properties query failed, all other queries having
\* succeeded, still delivers every joined listing, unsaved, and sets no error.
C9_SavedQueryFailureDegrades ==
    (failedQuery = "saved_properties" /\ calls = << >>)
    => /\ fpc = "done"
       /\ error = null
       /\ ~isLoading
       /\ rooms = JoinedRooms

C9_Witness ==
    /\ failedQuery = "saved_properties"
    /\ fpc = "done"
    /\ calls = << >>
    /\ SavedCount(user, "p1") > 0
    /\ Len(rooms) > 0

-----------------------------------------------------------------------------
(* The page with the filter modal: filteredRooms *)

\* parseInt of the occupancy buttons' values
parseInt(str) ==
    CASE str = "1" -> Num(1)
      [] str = "2" -> Num(2)
      [] str = "3" -> Num(3)
      [] str = "4" -> Num(4)
      [] OTHER -> NaN

matchesPrice(room, f) ==
    room.price >= f.priceRange[1] /\ room.price <= f.priceRange[2]

matchesOccupancy(room, f) ==
    f.occupancy = "all" \/ Num(room.max_occupancy) = parseInt(f.occupancy)

matchesGender(room, f) ==
    f.gender = "all" \/ room.renter_gender = f.gender

matchesType(room, f) ==
    f.type = all \/ toLowerCase(room.name) = toLowerCase(f.type)

\* the predicate of rooms.filter(...)
matchesAll(room, query, city, f) ==
    /\ matchesSearch(room, query)
    /\ matchesCity(room, city)
    /\ matchesPrice(room, f)
    /\ matchesOccupancy(room, f)
    /\ matchesGender(room, f)
    /\ matchesType(room, f)

\* new Date(created_at || '').getTime()
getTime(created_at) ==
    IF created_at.parsable THEN Num(created_at.ms) ELSE NaN

\* x - y on numbers
Minus(x, y) == IF x.nan \/ y.nan THEN NaN ELSE Num(x.v - y.v)

\* mutant of comparefn: both price modes compare ascending
comparefn_AlwaysAscending(a, b, mode) ==
    CASE mode = "price-asc" -> Minus(Num(a.price), Num(b.price))
      [] mode = "price-desc" -> Minus(Num(a.price), Num(b.price))
      [] mode = "newest" -> Minus(getTime(b.created_at), getTime(a.created_at))
      [] OTHER -> Num(0)

\* the comparator given to sort
comparefn(a, b, mode) ==
    CASE mode = "price-asc" -> Minus(Num(a.price), Num(b.price))
      [] mode = "price-desc" -> Minus(Num(b.price), Num(a.price))
      [] mode = "newest" -> Minus(getTime(b.created_at), getTime(a.created_at))
      [] OTHER -> Num(0)

\* SortCompare of Array.prototype.sort: a NaN from the comparator counts as +0
SortCompare(a, b, mode) ==
    IF comparefn(a, b, mode).nan THEN 0 ELSE comparefn(a, b, mode).v

\* whether comparefn is a consistent comparator for the elements of xs
\* (ECMAScript, Array.prototype.sort): otherwise the order is
\* implementation-defined
ConsistentComparator(xs, mode) ==
    \A i \in 1..Len(xs) : \A j \in 1..Len(xs) : \A k \in 1..Len(xs) :
       /\ SortCompare(xs[i], xs[i], mode) = 0
       /\ SortCompare(xs[i], xs[j], mode) = 0 => SortCompare(xs[j], xs[i], mode) = 0
       /\ (SortCompare(xs[i], xs[j], mode) = 0 /\ SortCompare(xs[j], xs[k], mode) = 0)
          => SortCompare(xs[i], xs[k], mode) = 0
       /\ (SortCompare(xs[i], xs[j], mode) < 0 /\ SortCompare(xs[j], xs[k], mode) < 0)
          => SortCompare(xs[i], xs[k], mode) < 0
       /\ (SortCompare(xs[i], xs[j], mode) > 0 /\ SortCompare(xs[j], xs[k], mode) > 0)
          => SortCompare(xs[i], xs[k], mode) > 0

\* x put into the sorted ys after every element that does not sort after it
RECURSIVE InsertSorted(_, _, _)
InsertSorted(ys, x, mode) ==
    IF ys = << >> THEN <<x>>
    ELSE IF SortCompare(ys[Len(ys)], x, mode) <= 0
    THEN Append(ys, x)
    ELSE Append(InsertSorted(SubSeq(ys, 1, Len(ys) - 1), x, mode), ys[Len(ys)])

\* the stable sort of xs by a consistent comparator
RECURSIVE StableSort(_, _)
StableSort(xs, mode) ==
    IF xs = << >> THEN << >>
    ELSE InsertSorted(StableSort(SubSeq(xs, 1, Len(xs) - 1), mode), xs[Len(xs)], mode)

\* the rearrangements of xs
Rearrangements(xs) ==
    {[i \in 1..Len(xs) |-> xs[f[i]]] :
       f \in {g \in [1..Len(xs) -> 1..Len(xs)] :
                \A i \in 1..Len(xs) : \A j \in 1..Len(xs) : g[i] = g[j] => i = j}}

\* what xs.sort(comparefn) can return
SortOutcomes(xs, mode) ==
    IF ConsistentComparator(xs, mode)
    THEN {StableSort(xs, mode)}
    ELSE Rearrangements(xs)

\* what rooms.filter(...).sort(...) can return
FilterSortOutcomes(listings, query, city, f, mode) ==
    SortOutcomes(SelectSeq(listings, LAMBDA room : matchesAll(room, query, city, f)),
                 mode)

-----------------------------------------------------------------------------
(* Specification of the page with the filter modal *)

\* listings a load can deliver: prices below, at and above the slider's
\* maximum, equal prices, equal and missing creation times, names that
\* differ in case only
FilterCatalogue ==
    << [id |-> "r1", property_id |-> "p1", name |-> <<"S", "t", "d">>,
        price |-> 500000, max_occupancy |-> 2, renter_gender |-> "male",
        created_at |-> Timestamp(1), property |-> PropertiesTable[1],
        isSaved |-> FALSE],
       [id |-> "r2", property_id |-> "p2", name |-> <<"V", "i", "p">>,
        price |-> 300000, max_occupancy |-> 1, renter_gender |-> "female",
        created_at |-> Timestamp(2), property |-> PropertiesTable[2],
        isSaved |-> FALSE],
       [id |-> "r3", property_id |-> "p1", name |-> <<"s", "t", "d">>,
        price |-> 300000, max_occupancy |-> 1, renter_gender |-> "mixed",
        created_at |-> NoTimestamp, property |-> PropertiesTable[1],
        isSaved |-> TRUE],
       [id |-> "r5", property_id |-> "p2", name |-> <<"V", "i", "p">>,
        price |-> PriceRangeMax + PriceStep, max_occupancy |-> 4,
        renter_gender |-> "male",
        created_at |-> Timestamp(2), property |-> PropertiesTable[2],
        isSaved |-> FALSE] >>

\* the collections of at most MaxListings distinct listings, in every order
FilterInputs ==
    UNION {{[i \in 1..n |-> FilterCatalogue[f[i]]] :
              f \in {g \in [1..n -> 1..Len(FilterCatalogue)] :
                       \A i \in 1..n : \A j \in 1..n : g[i] = g[j] => i = j}} :
           n \in 0..MaxListings}

\* text typed into the search box
Queries == {<< >>, <<"B", "a">>}

\* positions of the price slider (min 0, max 10000000, step 100000)
SliderValues == {0, 3 * PriceStep, PriceRangeMax}

\* values of the occupancy buttons
OccupancyValues == {"all", "1"}

\* values of the gender buttons
GenderValues == {"all", "male", "female"}

\* values of the sort menu
SortModes == {"newest", "price-asc", "price-desc"}

\* mutant of RenderOutcomes: rooms.sort(...).filter(...), the sort reorders
\* the held array itself
RenderOutcomes_SortsHeldArray(listings, query, city, f, mode) ==
    {[rooms |-> sorted,
      filteredRooms |-> SelectSeq(sorted, LAMBDA room : matchesAll(room, query, city, f))] :
       sorted \in SortOutcomes(listings, mode)}

\* the arrays after rooms.filter(...).sort(...): filter returns a new array,
\* sort reorders the array it is called on, which is that new array
RenderOutcomes(listings, query, city, f, mode) ==
    {[rooms |-> listings, filteredRooms |-> sorted] :
       sorted \in FilterSortOutcomes(listings, query, city, f, mode)}

\* the render that follows a state update
Render ==
    \E after \in RenderOutcomes(rooms, searchQuery', selectedCity', filters', sortBy') :
       /\ rooms' = after.rooms
       /\ filteredRooms' = after.filteredRooms

pageVars == <<storeVars, isLoading, error, cities, savingRoom, route,
              fetchVars, calls>>

FilterInit ==
    /\ saved = SetToBag({SavedRow("p1", U1)})
    /\ user = U1
    /\ rooms \in FilterInputs
    /\ isLoading = FALSE
    /\ error = null
    /\ cities = UniqueSeq([i \in 1..Len(QueryPublishedProperties) |->
                             QueryPublishedProperties[i].city])
    /\ savingRoom = null
    /\ route = "/marketplace"
    /\ fpc = "done"
    /\ properties = QueryPublishedProperties
    /\ allRooms = rooms
    /\ idx = Len(properties) + 1
    /\ failedQuery = "none"
    /\ calls = << >>
    /\ searchQuery = << >>
    /\ selectedCity = all
    /\ filters = DefaultFilters
    /\ sortBy = "newest"
    /\ filteredRooms \in FilterSortOutcomes(rooms, searchQuery, selectedCity,
                                            filters, sortBy)

\* onChange of the search box
setSearchQuery(query) ==
    /\ searchQuery' = query
    /\ UNCHANGED <<pageVars, selectedCity, filters, sortBy>>
    /\ Render

\* the city chip: setSelectedCity('all')
setSelectedCity(city) ==
    /\ selectedCity' = city
    /\ UNCHANGED <<pageVars, searchQuery, filters, sortBy>>
    /\ Render

\* onChange of the price slider
setPriceRange(value) ==
    /\ filters' = [filters EXCEPT !.priceRange = <<0, value>>]
    /\ UNCHANGED <<pageVars, searchQuery, selectedCity, sortBy>>
    /\ Render

\* onClick of an occupancy button
setOccupancy(value) ==
    /\ filters' = [filters EXCEPT !.occupancy = value]
    /\ UNCHANGED <<pageVars, searchQuery, selectedCity, sortBy>>
    /\ Render

\* onClick of a gender button
setGender(value) ==
    /\ filters' = [filters EXCEPT !.gender = value]
    /\ UNCHANGED <<pageVars, searchQuery, selectedCity, sortBy>>
    /\ Render

\* onClick of Reset
resetFilters ==
    /\ filters' = DefaultFilters
    /\ UNCHANGED <<pageVars, searchQuery, selectedCity, sortBy>>
    /\ Render

\* onchange of the sort menu
setSortBy(mode) ==
    /\ sortBy' = mode
    /\ UNCHANGED <<pageVars, searchQuery, selectedCity, filters>>
    /\ Render

FilterNext ==
    \/ \E query \in Queries : setSearchQuery(query)
    \/ setSelectedCity(all)
    \/ \E i \in 1..Len(cities) : setSelectedCity(cities[i])
    \/ \E value \in SliderValues : setPriceRange(value)
    \/ \E value \in OccupancyValues : setOccupancy(value)
    \/ \E value \in GenderValues : setGender(value)
    \/ resetFilters
    \/ \E mode \in SortModes : setSortBy(mode)

FilterSpec == FilterInit /\ [][FilterNext]_vars

\* no criterion of the filter is active: every selector at 'all', the price
\* range at its default, the search box empty
NoActiveFilter ==
    /\ searchQuery = << >>
    /\ selectedCity = all
    /\ filters = DefaultFilters

\* C10: with no active filter the output holds every listing of the held
\* collection, under every sort mode.
C10_NoFilterDropsNothing ==
    NoActiveFilter
    => /\ Len(filteredRooms) = Len(rooms)
       /\ \A i \in 1..Len(rooms) :
            \E j \in 1..Len(filteredRooms) : filteredRooms[j] = rooms[i]

-----------------------------------------------------------------------------
(* Properties of the filter *)

\* c and d are the same letter, in whatever case
SameLetter(c, d) ==
    \/ c = d
    \/ \E k \in 1..Len(UpperCase) : {c, d} = {UpperCase[k], LowerCase[k]}

\* text and other are equal up to the case of their letters
EqualIgnoringCase(text, other) ==
    /\ Len(text) = Len(other)
    /\ \A k \in 1..Len(text) : SameLetter(text[k], other[k])

\* part occurs in text, up to the case of the letters
ContainsIgnoringCase(text, part) ==
    \E i \in 0..(Len(text) - Len(part)) :
       \A k \in 1..Len(part) : SameLetter(text[i + k], part[k])

\* the digits of the occupancy selector
OccupancyDigits == <<"1", "2", "3", "4">>

\* the criteria of the claim, for a listing and given criteria
Satisfies(room, query, city, priceRange, occupancy, gender, type) ==
    /\ \/ ContainsIgnoringCase(room.name, query)
       \/ ContainsIgnoringCase(room.property.name, query)
       \/ ContainsIgnoringCase(room.property.city, query)
       \/ ContainsIgnoringCase(room.property.address, query)
    /\ city = all \/ room.property.city = city
    /\ priceRange[1] <= room.price /\ room.price <= priceRange[2]
    /\ occupancy = "all"
       \/ \E n \in 1..Len(OccupancyDigits) :
            occupancy = OccupancyDigits[n] /\ room.max_occupancy = n
    /\ gender = "all" \/ room.renter_gender = gender
    /\ type = all \/ EqualIgnoringCase(room.name, type)

\* room-type labels a criteria value could carry (no control of the page sets one)
TypeLabels == {all, <<"S", "T", "D">>, <<"v", "i", "p">>, <<"s", "t">>}

\* C11: the listings of the output are exactly the listings of the held
\* collection that satisfy every criterion (query, city, price range,
\* occupancy, gender, room type), each listing once.
C11_FilterIsConjunction ==
    /\ \A i \in 1..Len(rooms) :
         (\E j \in 1..Len(filteredRooms) : filteredRooms[j] = rooms[i])
         <=> Satisfies(rooms[i], searchQuery, selectedCity, filters.priceRange,
                       filters.occupancy, filters.gender, filters.type)
    /\ \A j \in 1..Len(filteredRooms) :
         /\ \E i \in 1..Len(rooms) : rooms[i] = filteredRooms[j]
         /\ \A k \in 1..Len(filteredRooms) : filteredRooms[k] = filteredRooms[j] => k = j
    /\ \A i \in 1..Len(rooms) : \A type \in TypeLabels :
         matchesAll(rooms[i], searchQuery, selectedCity,
                    [filters EXCEPT !.type = type])
         <=> Satisfies(rooms[i], searchQuery, selectedCity, filters.priceRange,
                       filters.occupancy, filters.gender, type)

\* a query in upper case matches a listing through its city only, while
\* another criterion excludes a listing the query matches
C11_Witness ==
    /\ searchQuery = <<"B", "a">>
    /\ filters.gender = "female"
    /\ filters.occupancy = "1"
    /\ \E j \in 1..Len(filteredRooms) :
         /\ ~ContainsIgnoringCase(filteredRooms[j].name, searchQuery)
         /\ ContainsIgnoringCase(filteredRooms[j].property.city, searchQuery)
    /\ \E i \in 1..Len(rooms) :
         /\ ContainsIgnoringCase(rooms[i].property.city, searchQuery)
         /\ \A j \in 1..Len(filteredRooms) : filteredRooms[j] # rooms[i]

-----------------------------------------------------------------------------
(* Properties of the sort *)

\* the place of a listing in the held collection
PlaceInRooms(room) == CHOOSE i \in 1..Len(rooms) : rooms[i] = room

\* C12: under price-asc the output is in non-decreasing order of price, under
\* price-desc in non-increasing order, and two listings of equal price come
\* in the order they have in the held collection.
C12_PriceOrderStable ==
    \A j \in 1..Len(filteredRooms) : \A k \in (j + 1)..Len(filteredRooms) :
       /\ sortBy = "price-asc" => filteredRooms[j].price <= filteredRooms[k].price
       /\ sortBy = "price-desc" => filteredRooms[j].price >= filteredRooms[k].price
       /\ (sortBy \in {"price-asc", "price-desc"}
           /\ filteredRooms[j].price = filteredRooms[k].price)
          => PlaceInRooms(filteredRooms[j]) < PlaceInRooms(filteredRooms[k])

\* a price-desc output that had to move a listing over two listings of equal price
C12_Witness ==
    /\ sortBy = "price-desc"
    /\ Len(filteredRooms) = 3
    /\ filteredRooms # rooms
    /\ filteredRooms[1].price > filteredRooms[2].price
    /\ filteredRooms[2].price = filteredRooms[3].price

\* the creation time a listing sorts by when a missing or unparsable
\* timestamp counts as the oldest one
TimeOrOldest(room) == IF room.created_at.parsable THEN room.created_at.ms ELSE 0

\* C13: under newest the output is in descending order of creation time, a
\* listing without a parsable timestamp counting as the oldest, so that it
\* comes after every listing that has one.
C13_NewestFirstMissingLast ==
    sortBy = "newest" =>
       \A j \in 1..Len(filteredRooms) : \A k \in (j + 1)..Len(filteredRooms) :
          /\ TimeOrOldest(filteredRooms[j]) >= TimeOrOldest(filteredRooms[k])
          /\ filteredRooms[k].created_at.parsable => filteredRooms[j].created_at.parsable

-----------------------------------------------------------------------------
(* Properties of the load *)

\* the cities of the properties the marketplace lists
MarketplaceCities ==
    {PropertiesTable[k].city :
       k \in {n \in 1..Len(PropertiesTable) :
                /\ PropertiesTable[n].marketplace_enabled
                /\ PropertiesTable[n].marketplace_status = "published"}}

\* C14: after a load without error, the cities held are the cities of the
\* published, marketplace-enabled properties of the store, each once,
\* whether or not a property has rooms.
C14_CitiesOfAllProperties ==
    (fpc = "done" /\ error = null) =>
       /\ {cities[i] : i \in 1..Len(cities)} = MarketplaceCities
       /\ \A i \in 1..Len(cities) : \A j \in 1..Len(cities) :
            cities[i] = cities[j] => i = j

\* a load without error whose cities include one that no listing is in,
\* and one that two properties share
C14_Witness ==
    /\ fpc = "done"
    /\ error = null
    /\ Len(rooms) > 0
    /\ \E i \in 1..Len(cities) :
         \A k \in 1..Len(rooms) : rooms[k].property.city # cities[i]
    /\ \E a \in 1..Len(properties) : \E b \in 1..Len(properties) :
         a # b /\ properties[a].city = properties[b].city

-----------------------------------------------------------------------------
(* Frame of the filter *)

\* C15: computing the output leaves the held collection as it was, the same
\* listings in the same order with the same fields, and every listing of the
\* output is a listing of the held collection.
C15_RenderKeepsRooms ==
    [][/\ rooms' = rooms
       /\ \A j \in 1..Len(filteredRooms') :
            \E i \in 1..Len(rooms) : rooms[i] = filteredRooms'[j]]_vars

\* an output that drops a listing of the held collection and reorders the
\* rest, the held collection still being the loaded one
C15_Witness ==
    /\ sortBy # "newest"
    /\ rooms = allRooms
    /\ Len(filteredRooms) = 2
    /\ Len(rooms) = 3
    /\ \E i \in 1..Len(rooms) : \E k \in (i + 1)..Len(rooms) :
         rooms[i] = filteredRooms[2] /\ rooms[k] = filteredRooms[1]

-----------------------------------------------------------------------------
(* The save button of the page with the filter modal *)

\* handleSaveToggle: the click of the heart of a rendered card
handleSaveToggle(propertyId, roomId) ==
    /\ \E after \in RenderOutcomes(FlipSaved(rooms, roomId), searchQuery,
                                   selectedCity, filters, sortBy) :
         /\ rooms' = after.rooms
         /\ filteredRooms' = after.filteredRooms
    /\ UNCHANGED <<pageVars, searchQuery, selectedCity, filters, sortBy>>

ToggleNext ==
    \E j \in 1..Len(filteredRooms) :
       handleSaveToggle(filteredRooms[j].property.id, filteredRooms[j].id)

\* the page with the filter modal, the save buttons being the only controls used
ToggleSpec == FilterInit /\ [][ToggleNext]_vars

\* C16: a step that flips isSaved of a listing of the held collection also
\* performs the store mutation on (property, user) that the value before the
\* step selects: the delete when it was true, the insert when it was false.
C16_FlipBackedByStoreCall ==
    [][\A i \in 1..Len(rooms) :
          (Len(rooms') = Len(rooms) /\ rooms'[i].isSaved # rooms[i].isSaved)
          => saved' = IF rooms[i].isSaved
                      THEN StoreDelete(rooms[i].property.id, user)
                      ELSE StoreInsert(rooms[i].property.id, user)]_vars

-----------------------------------------------------------------------------
(* Saved state of the listings against the store *)

\* the load ended without error and every click of Save since was made with
\* no other invocation in flight and ended with a successful store call
OnlyCompletedSuccessfulToggles ==
    /\ fpc = "done"
    /\ error = null
    /\ failedQuery = "none"
    /\ user # NoUser
    /\ InFlight = {}
    /\ \A c \in 1..Len(calls) : calls[c].res = "ok" /\ calls[c].over = {}

\* C17: with no toggle in flight, after a load without error and completed,
\* successful toggles of one signed-in user, isSaved of every listing tells
\* whether the store holds a mark of the user for the listing's property;
\* this includes the other rooms of a property a room of which was toggled.
C17_SavedStateMatchesStore ==
    OnlyCompletedSuccessfulToggles =>
       \A i \in 1..Len(rooms) :
          rooms[i].isSaved <=> SavedCount(user, rooms[i].property.id) > 0

-----------------------------------------------------------------------------
(* Specification of the load alone, with fairness *)

\* contents of saved_properties at the mount of the page
LoadInitSaved ==
    {SetToBag({SavedRow(p, U1) : p \in S} \cup {SavedRow("p2", U2)}) :
       S \in SUBSET {"p1", "p2", "p3"}}

LoadInit ==
    /\ saved \in LoadInitSaved
    /\ user \in {NoUser, U1}
    /\ rooms = << >>
    /\ isLoading = TRUE
    /\ error = null
    /\ cities = << >>
    /\ savingRoom = null
    /\ route = "/marketplace"
    /\ fpc = "mount"
    /\ properties = << >>
    /\ allRooms = << >>
    /\ idx = 1
    /\ failedQuery = "none"
    /\ calls = << >>
    /\ searchQuery = << >>
    /\ selectedCity = all
    /\ filters = DefaultFilters
    /\ sortBy = "newest"
    /\ filteredRooms = << >>

LoadNext ==
    \/ FetchStart
    \/ FetchProperties
    \/ FetchRoomTypes
    \/ FetchGetUser
    \/ FetchSavedProperties

\* every awaited call settles, with rows or with an error, and the
\* continuation of fetchRooms then runs: the effect runs after the mount
LoadSpec == LoadInit /\ [][LoadNext]_vars /\ WF_vars(LoadNext)

\* the rooms of the store whose property the marketplace lists
ListedRooms ==
    {k \in 1..Len(RoomTypesTable) :
       \E n \in 1..Len(PropertiesTable) :
          /\ PropertiesTable[n].id = RoomTypesTable[k].property_id
          /\ PropertiesTable[n].marketplace_enabled
          /\ PropertiesTable[n].marketplace_status = "published"}

\* listings is the join of the listed rooms with their properties: one
\* listing for each such room, with the fields of the room and its property
FullJoin(listings) ==
    /\ Len(listings) = Cardinality(ListedRooms)
    /\ \A k \in ListedRooms :
         \E i \in 1..Len(listings) :
            /\ \A field \in DOMAIN RoomTypesTable[k] :
                 listings[i][field] = RoomTypesTable[k][field]
            /\ \E n \in 1..Len(PropertiesTable) :
                 /\ PropertiesTable[n].id = RoomTypesTable[k].property_id
                 /\ listings[i].property = PropertiesTable[n]

\* the two ways a load ends
LoadOutcome ==
    (error # null /\ rooms = << >>) # (error = null /\ FullJoin(rooms))

\* a load that has ended, ended in one of the two ways
LoadEndedOneOfTwoWays == ~isLoading => LoadOutcome

\* C18: a load in progress leads to the loading flag being false, whichever
\* query fails or succeeds; and when the flag is false exactly one holds:
\* the error is set and no listing is held, or the error is unset and the
\* listings held are the full join of rooms with their properties.
C18_LoadEndsOneOfTwoWays ==
    /\ isLoading ~> (~isLoading /\ LoadOutcome)
    /\ []LoadEndedOneOfTwoWays

\* a load that ended while its last query failed: the listings are held
C18_Witness ==
    /\ ~isLoading
    /\ fpc = "done"
    /\ failedQuery = "saved_properties"
    /\ error = null
    /\ Len(rooms) = Cardinality(ListedRooms)

====
